---- MODULE Spec2Model ----
(***************************************************************************)
(* The RPC header registry of net/rpc: headers are attached to a context   *)
(* with context.WithValue, and a process-wide side-table headerKeysMap,    *)
(* keyed by context identity, lists the header keys of a context.          *)
(*                                                                         *)
(* A context is a handle: Nil (the nil interface), Root                    *)
(* (context.Background()) or the index of a value context in ctxs.         *)
(***************************************************************************)
EXTENDS Integers, Sequences, FiniteSets, TLC

\* Bound of the model: the number of value contexts ever created.
MaxCtx == 3

\* Header keys and values the callers draw from ("" is a legal value).
Keys == {"k1", "k2"}
Values == {"", "v1"}

\* The nil context.Context and context.Background().
Nil == -1
Root == 0

VARIABLES
    ctxs,           \* the value contexts created so far: [parent, key, val]
    headerKeysMap,  \* the side-table: context -> sequence of header keys
    handles,        \* the value contexts that were returned to a caller
    last,           \* the last set or setAll call: arguments and outcome
    req,            \* net/resty: the facade call in progress or just returned
    pc,             \* goroutine -> where it is in SetRPCHeader / GetRPCHeaders
    loc,            \* goroutine -> the arguments and locals of its call
    wHolder,        \* headerKeysMutex: the goroutine in Lock..Unlock, or NoProc
    readers         \* headerKeysMutex: the goroutines in RLock..RUnlock

\* The state of the header registry, of the request facade and of the
\* goroutines that call the registry concurrently.
registryVars == <<ctxs, headerKeysMap, handles, last>>
facadeVars == <<req>>
procVars == <<pc, loc, wHolder, readers>>

vars == <<ctxs, headerKeysMap, handles, last, req, pc, loc, wHolder, readers>>

\* The empty map[string]string.
EmptyHeaders == [k \in {} |-> ""]

\* Every map[string]string over Keys and Values.
HeaderMaps == UNION {[D -> Values] : D \in SUBSET Keys}

\* The orders in which a range over a map with key set D may visit it.
RangeOrders(D) ==
    {o \in UNION {[1..n -> D] : n \in {Cardinality(D)}} :
        \A i, j \in 1..Len(o) : i # j => o[i] # o[j]}

\* A lookup in one process-wide table of headers: the value written last
\* under the key on any context, whatever the chain of ctx.
ValueGlobal(cs, ctx, key) ==
    LET at == {i \in 1..Len(cs) : cs[i].key = key} IN
    IF at = {}
    THEN <<>>
    ELSE <<cs[CHOOSE i \in at : \A j \in at : j <= i].val>>

\* ctx.Value(headerKey(key)): the value attached nearest to ctx on its chain
\* of parents, <<v>>, or <<>> for the nil any of a chain without the key.
RECURSIVE Value(_, _, _)
Value(cs, ctx, key) ==
    IF ctx = Root
    THEN <<>>
    ELSE IF cs[ctx].key = key
         THEN <<cs[ctx].val>>
         ELSE Value(cs, cs[ctx].parent, key)

\* A lookup that treats the empty string as an absent header.
GetRPCHeaderEmptyAbsent(cs, ctx, key) ==
    IF ctx = Nil
    THEN <<"", FALSE>>
    ELSE LET value == Value(cs, ctx, key) IN
         IF value = <<>> \/ value = <<"">>
         THEN <<"", FALSE>>
         ELSE <<value[1], TRUE>>

\* GetRPCHeader(ctx, key) in the heap of contexts cs: <<value, found>>.
\* Only strings are stored under a headerKey, so the type assertion holds.
GetRPCHeader(cs, ctx, key) ==
    IF ctx = Nil
    THEN <<"", FALSE>>
    ELSE LET value == Value(cs, ctx, key) IN
         IF value = <<>>
         THEN <<"", FALSE>>
         ELSE <<value[1], TRUE>>

\* headerKeysMap[ctx]: the nil slice for a context without an entry.
KeysOf(map, ctx) == IF ctx \in DOMAIN map THEN map[ctx] ELSE <<>>

\* A bulk read that takes the keys of every entry of the side-table and
\* keeps a key whether or not the lookup found it.
GetRPCHeadersAllKeys(cs, map, ctx) ==
    IF ctx = Nil
    THEN EmptyHeaders
    ELSE LET all == UNION {{map[h][i] : i \in 1..Len(map[h])} : h \in DOMAIN map}
         IN [k \in all |-> GetRPCHeader(cs, ctx, k)[1]]

\* A bulk read of a process-wide registry: every key of the side-table with
\* the value written last under it, whatever the context asked about.
GetRPCHeadersGlobal(cs, map, ctx) ==
    LET all == UNION {{map[h][i] : i \in 1..Len(map[h])} : h \in DOMAIN map}
    IN [k \in all |-> ValueGlobal(cs, ctx, k)[1]]

\* GetRPCHeaders(ctx) in the state (cs, map): the map it returns.
GetRPCHeaders(cs, map, ctx) ==
    IF ctx = Nil
    THEN EmptyHeaders
    ELSE LET keys == KeysOf(map, ctx)
             present == {keys[i] : i \in {j \in 1..Len(keys) :
                                            GetRPCHeader(cs, ctx, keys[j])[2]}}
         IN [k \in present |-> GetRPCHeader(cs, ctx, k)[1]]

\* An extension that also writes the pair into the parent it extends.
WithValueInPlace(cs, ctx, key, value) ==
    [ctxs |-> Append(IF ctx = Root THEN cs
                     ELSE [cs EXCEPT ![ctx].key = key, ![ctx].val = value],
                     [parent |-> ctx, key |-> key, val |-> value]),
     ret |-> Len(cs) + 1]

\* context.WithValue(ctx, headerKey(key), value): a new value context; the
\* parent is left as it is.
WithValue(cs, ctx, key, value) ==
    [ctxs |-> Append(cs, [parent |-> ctx, key |-> key, val |-> value]),
     ret |-> Len(cs) + 1]

\* A set that reads the key list of the new context instead of the parent's,
\* so that nothing is inherited.
SetRPCHeaderNoInherit(cs, map, ctx, key, value) ==
    IF ctx = Nil
    THEN [ctxs |-> cs, headerKeysMap |-> map, ret |-> Nil, panicked |-> TRUE]
    ELSE LET w == WithValue(cs, ctx, key, value)
             newCtx == w.ret
             keys2 == Append(KeysOf(map, newCtx), key)
         IN [ctxs |-> w.ctxs,
             headerKeysMap |->
                 [h \in (DOMAIN map \cup {newCtx}) \ {ctx} |->
                     IF h = newCtx THEN keys2 ELSE map[h]],
             ret |-> newCtx,
             panicked |-> FALSE]

\* A set that appends its key to the inherited list without looking for it.
SetRPCHeaderAlwaysAppend(cs, map, ctx, key, value) ==
    IF ctx = Nil
    THEN [ctxs |-> cs, headerKeysMap |-> map, ret |-> Nil, panicked |-> TRUE]
    ELSE LET w == WithValue(cs, ctx, key, value)
             newCtx == w.ret
             keys2 == Append(KeysOf(map, ctx), key)
         IN [ctxs |-> w.ctxs,
             headerKeysMap |->
                 [h \in (DOMAIN map \cup {newCtx}) \ {ctx} |->
                     IF h = newCtx THEN keys2 ELSE map[h]],
             ret |-> newCtx,
             panicked |-> FALSE]

\* A set that leaves the entry of its parent in the side-table.
SetRPCHeaderNoDelete(cs, map, ctx, key, value) ==
    IF ctx = Nil
    THEN [ctxs |-> cs, headerKeysMap |-> map, ret |-> Nil, panicked |-> TRUE]
    ELSE LET w == WithValue(cs, ctx, key, value)
             newCtx == w.ret
             keys == KeysOf(map, ctx)
             found == \E i \in 1..Len(keys) : keys[i] = key
             keys2 == IF found THEN keys ELSE Append(keys, key)
         IN [ctxs |-> w.ctxs,
             headerKeysMap |->
                 [h \in DOMAIN map \cup {newCtx} |->
                     IF h = newCtx THEN keys2 ELSE map[h]],
             ret |-> newCtx,
             panicked |-> FALSE]

\* SetRPCHeader(ctx, key, value) in the state (cs, map): the state after the
\* call, the context it returns, and whether it panicked (context.WithValue
\* panics on a nil parent, before the lock is taken).
SetRPCHeader(cs, map, ctx, key, value) ==
    IF ctx = Nil
    THEN [ctxs |-> cs, headerKeysMap |-> map, ret |-> Nil, panicked |-> TRUE]
    ELSE LET w == WithValue(cs, ctx, key, value)
             newCtx == w.ret
             keys == KeysOf(map, ctx)
             found == \E i \in 1..Len(keys) : keys[i] = key
             keys2 == IF found THEN keys ELSE Append(keys, key)
         IN [ctxs |-> w.ctxs,
             headerKeysMap |->
                 [h \in (DOMAIN map \cup {newCtx}) \ {ctx} |->
                     IF h = newCtx THEN keys2 ELSE map[h]],
             ret |-> newCtx,
             panicked |-> FALSE]

\* A fold that sets every header on base and returns the last result (cur).
RECURSIVE SetEachOnBase(_, _, _, _, _, _)
SetEachOnBase(cs, map, base, cur, headers, order) ==
    IF order = <<>>
    THEN [ctxs |-> cs, headerKeysMap |-> map, ret |-> cur, panicked |-> FALSE]
    ELSE LET s == SetRPCHeader(cs, map, base, Head(order), headers[Head(order)])
         IN IF s.panicked
            THEN s
            ELSE SetEachOnBase(s.ctxs, s.headerKeysMap, base, s.ret, headers,
                               Tail(order))

\* A bulk set in which every SetRPCHeader extends ctx, not the result of the
\* one before.
SetRPCHeadersOnCtx(cs, map, ctx, headers, order) ==
    SetEachOnBase(cs, map, ctx, ctx, headers, order)

\* The fold of SetRPCHeader over the headers in the order given.
RECURSIVE FoldSet(_, _, _, _, _)
FoldSet(cs, map, cur, headers, order) ==
    IF order = <<>>
    THEN [ctxs |-> cs, headerKeysMap |-> map, ret |-> cur, panicked |-> FALSE]
    ELSE LET s == SetRPCHeader(cs, map, cur, Head(order), headers[Head(order)])
         IN IF s.panicked
            THEN s
            ELSE FoldSet(s.ctxs, s.headerKeysMap, s.ret, headers, Tail(order))

\* A bulk set whose fold starts from context.Background() instead of ctx.
SetRPCHeadersFromBackground(cs, map, ctx, headers, order) ==
    FoldSet(cs, map, Root, headers, order)

\* SetRPCHeaders(ctx, headers), the range over headers visiting its keys in
\* the order given.
RECURSIVE SetRPCHeaders(_, _, _, _, _)
SetRPCHeaders(cs, map, ctx, headers, order) ==
    IF order = <<>>
    THEN [ctxs |-> cs, headerKeysMap |-> map, ret |-> ctx, panicked |-> FALSE]
    ELSE LET s == SetRPCHeader(cs, map, ctx, Head(order), headers[Head(order)])
         IN IF s.panicked
            THEN s
            ELSE SetRPCHeaders(s.ctxs, s.headerKeysMap, s.ret, headers,
                               Tail(order))

\* The contexts a caller can pass: nil, the background context, and every
\* context a call returned.
Callable == handles \cup {Root, Nil}

\* The record of a call: a call that panicked returned nothing, and only its
\* context is kept.
NoCall ==
    [op |-> "init", ctx |-> Nil, key |-> "", value |-> "",
     headers |-> EmptyHeaders, ret |-> Nil, panicked |-> FALSE]

(***************************************************************************)
(* The request facade of net/resty: every function builds a request with   *)
(* GetRequest or GetHttpsRequest, executes it once with Get or Post, and   *)
(* returns from what the execution gave.                                   *)
(***************************************************************************)

\* DefaultTimeout, in seconds.
DefaultTimeout == 10

\* The functions of the facade that send a request.
GetFns ==
    {"Get", "GetWithHeaders", "HttpsGetWithHeaders", "HttpsGet",
     "GetWithEntity", "GetWithTimeOut", "HttpsGetWithTimeOut"}
PostFns ==
    {"Post", "PostWithTimeOut", "HttpsPost", "HttpsPostWithTimeOut",
     "PostWithEntity", "Json", "Form", "File",
     "HttpsPostWithTimeOutResHeader"}
FacadeFns == GetFns \cup PostFns

\* The functions that build their request with GetHttpsRequest.
HttpsFns ==
    {"HttpsGetWithHeaders", "HttpsGet", "HttpsGetWithTimeOut", "HttpsPost",
     "HttpsPostWithTimeOut", "HttpsPostWithTimeOutResHeader"}

\* The functions with a timeout parameter; the others pass DefaultTimeout.
TimeoutFns ==
    {"GetWithEntity", "GetWithTimeOut", "HttpsGetWithTimeOut",
     "PostWithTimeOut", "HttpsPostWithTimeOut", "PostWithEntity",
     "HttpsPostWithTimeOutResHeader"}

\* The functions that decode the body into the caller's entity and return
\* only an error.
EntityFns == {"GetWithEntity", "PostWithEntity"}

\* The timeouts a caller passes, the errors an execution reports, and the
\* status codes and bodies of the responses it delivers.
Timeouts == {1, 30}
TransportErrors == {"connection refused", "timeout exceeded"}
Statuses == {200, 404, 500}
JsonBodies == {"{\"status\":\"ok\"}"}
Bodies == JsonBodies \cup {"Internal Server Error", ""}

\* A nil []byte, and the []byte of a body.
NilBytes == <<>>
Bytes(body) == <<body>>

\* json.Unmarshal(resp, &entity): the error it returns, "nil" for none.
JsonUnmarshal(body) ==
    IF body \in JsonBodies THEN "nil"
    ELSE IF body = "" THEN "unexpected end of JSON input"
    ELSE "invalid character"

\* GetRequest(timeout) and GetHttpsRequest(timeout): the client the request
\* is built on.
GetRequest(timeout) == [timeout |-> timeout, insecureSkipVerify |-> FALSE]
GetHttpsRequest(timeout) == [timeout |-> timeout, insecureSkipVerify |-> TRUE]

\* A return that takes a status of 400 or more for an error.
ReturnOfStatusIsError(fn, err, status, body) ==
    IF err # "nil"
    THEN [body |-> NilBytes, err |-> err]
    ELSE IF status >= 400
    THEN [body |-> NilBytes, err |-> "bad status"]
    ELSE IF fn \in EntityFns
    THEN [body |-> NilBytes, err |-> JsonUnmarshal(body)]
    ELSE [body |-> Bytes(body), err |-> "nil"]

\* What fn returns after an execution that gave (response, err): the body
\* it returns and its error.
ReturnOf(fn, err, status, body) ==
    IF err # "nil"
    THEN [body |-> NilBytes, err |-> err]
    ELSE IF fn \in EntityFns
    THEN [body |-> NilBytes, err |-> JsonUnmarshal(body)]
    ELSE [body |-> Bytes(body), err |-> "nil"]

NoRequest ==
    [phase |-> "idle", fn |-> "", method |-> "", client |-> GetRequest(0),
     attempts |-> 0, err |-> "nil", status |-> 0, body |-> "",
     retBody |-> NilBytes, retErr |-> "nil"]

\* A caller calls fn: the request is built.
FacadeCall(fn, timeout) ==
    /\ req.phase \in {"idle", "returned"}
    /\ timeout = DefaultTimeout \/ fn \in TimeoutFns
    /\ req' = [NoRequest EXCEPT
                  !.phase = "built",
                  !.fn = fn,
                  !.method = IF fn \in GetFns THEN "GET" ELSE "POST",
                  !.client = IF fn \in HttpsFns THEN GetHttpsRequest(timeout)
                             ELSE GetRequest(timeout)]
    /\ UNCHANGED <<registryVars, procVars>>

\* The one Get(url) or Post(url) of the call fails in the transport.
TransportFails(e) ==
    /\ req.phase = "built"
    /\ req' = [req EXCEPT !.phase = "executed", !.attempts = @ + 1,
                          !.err = e]
    /\ UNCHANGED <<registryVars, procVars>>

\* The one Get(url) or Post(url) of the call delivers a response.
TransportResponds(status, body) ==
    /\ req.phase = "built"
    /\ req' = [req EXCEPT !.phase = "executed", !.attempts = @ + 1,
                          !.status = status, !.body = body]
    /\ UNCHANGED <<registryVars, procVars>>

\* The function returns.
FacadeReturn ==
    /\ req.phase = "executed"
    /\ LET r == ReturnOf(req.fn, req.err, req.status, req.body) IN
       req' = [req EXCEPT !.phase = "returned", !.retBody = r.body,
                          !.retErr = r.err]
    /\ UNCHANGED <<registryVars, procVars>>

NextFacade ==
    \/ \E fn \in FacadeFns, timeout \in Timeouts \cup {DefaultTimeout} :
          FacadeCall(fn, timeout)
    \/ \E e \in TransportErrors : TransportFails(e)
    \/ \E status \in Statuses, body \in Bodies :
          TransportResponds(status, body)
    \/ FacadeReturn

(***************************************************************************)
(* Goroutines calling SetRPCHeader and GetRPCHeaders concurrently, one     *)
(* step per statement that touches headerKeysMutex or headerKeysMap.       *)
(*                                                                         *)
(* headerKeysMutex is a sync.RWMutex: Lock first takes the writers' inner  *)
(* mutex, from when on new readers wait, and then waits for the readers    *)
(* inside to leave; RLock waits while a writer holds or awaits the lock.   *)
(***************************************************************************)

\* The goroutines.
Procs == {"g1", "g2"}

\* No goroutine.
NoProc == "none"

\* The contexts a goroutine passes: the background context and every
\* context a call returned.
Shared == handles \cup {Root}

NoLocals ==
    [op |-> "none", ctx |-> Root, key |-> "", value |-> "", newCtx |-> Root,
     keys |-> <<>>, atLock |-> [h \in {} |-> <<>>], all |-> EmptyHeaders,
     todo |-> <<>>]

\* The contexts that exist plus those the SetRPCHeaders calls in progress
\* have yet to derive.
RECURSIVE Todo(_)
Todo(ps) ==
    IF ps = {} THEN 0
    ELSE LET p == CHOOSE q \in ps : TRUE
         IN Len(loc[p].todo) + Todo(ps \ {p})

Reserved == Len(ctxs) + Todo(Procs)

\* SetRPCHeader, line 54: newCtx := context.WithValue(ctx, headerKey(key),
\* value), before the lock.
CSetCall(p, ctx, key, value) ==
    /\ pc[p] = "idle"
    /\ Reserved < MaxCtx
    /\ LET w == WithValue(ctxs, ctx, key, value) IN
       /\ ctxs' = w.ctxs
       /\ loc' = [loc EXCEPT ![p] =
                     [NoLocals EXCEPT !.op = "set", !.ctx = ctx, !.key = key,
                                      !.value = value, !.newCtx = w.ret]]
    /\ pc' = [pc EXCEPT ![p] = "lock"]
    /\ UNCHANGED <<headerKeysMap, handles, last, req, wHolder, readers>>

\* headerKeysMutex.Lock(), first half: the goroutine becomes the one writer
\* that holds or awaits the lock.
CLockW(p) ==
    /\ pc[p] = "lock"
    /\ wHolder = NoProc
    /\ wHolder' = p
    /\ pc' = [pc EXCEPT ![p] = "drain"]
    /\ UNCHANGED <<ctxs, headerKeysMap, handles, last, req, loc, readers>>

\* headerKeysMutex.Lock(), second half: the readers inside have left.
CLockDrain(p) ==
    /\ pc[p] = "drain"
    /\ readers = {}
    /\ loc' = [loc EXCEPT ![p].atLock = headerKeysMap]
    /\ pc' = [pc EXCEPT ![p] = "read"]
    /\ UNCHANGED <<ctxs, headerKeysMap, handles, last, req, wHolder, readers>>

\* SetRPCHeader, lines 60-70: keys := headerKeysMap[ctx], the search for key
\* and the append.
CReadKeys(p) ==
    /\ pc[p] = "read"
    /\ LET keys == KeysOf(headerKeysMap, loc[p].ctx)
           found == \E i \in 1..Len(keys) : keys[i] = loc[p].key
       IN loc' = [loc EXCEPT ![p].keys =
                     IF found THEN keys ELSE Append(keys, loc[p].key)]
    /\ pc' = [pc EXCEPT ![p] = "store"]
    /\ UNCHANGED <<ctxs, headerKeysMap, handles, last, req, wHolder, readers>>

\* SetRPCHeader, line 71: headerKeysMap[newCtx] = keys.
CStore(p) ==
    /\ pc[p] = "store"
    /\ headerKeysMap' =
          [h \in DOMAIN headerKeysMap \cup {loc[p].newCtx} |->
              IF h = loc[p].newCtx THEN loc[p].keys ELSE headerKeysMap[h]]
    /\ pc' = [pc EXCEPT ![p] = "delete"]
    /\ UNCHANGED <<ctxs, handles, last, req, loc, wHolder, readers>>

\* A delete that leaves the entry of the parent where it is.
CDeleteSkipped(p) ==
    /\ pc[p] = "delete"
    /\ pc' = [pc EXCEPT ![p] = "unlock"]
    /\ UNCHANGED <<ctxs, headerKeysMap, handles, last, req, loc, wHolder,
                   readers>>

\* SetRPCHeader, line 72: delete(headerKeysMap, ctx).
CDelete(p) ==
    /\ pc[p] = "delete"
    /\ headerKeysMap' =
          [h \in DOMAIN headerKeysMap \ {loc[p].ctx} |-> headerKeysMap[h]]
    /\ pc' = [pc EXCEPT ![p] = "unlock"]
    /\ UNCHANGED <<ctxs, handles, last, req, loc, wHolder, readers>>

\* A return that leaves headerKeysMutex locked.
CUnlockForgotten(p) ==
    /\ pc[p] = "unlock"
    /\ IF loc[p].op = "setAll"
       THEN /\ loc' = [loc EXCEPT ![p] =
                          [NoLocals EXCEPT !.op = "setAll",
                                           !.ctx = loc[p].newCtx,
                                           !.todo = loc[p].todo]]
            /\ pc' = [pc EXCEPT ![p] = "next"]
            /\ UNCHANGED handles
       ELSE /\ handles' = handles \cup {loc[p].newCtx}
            /\ loc' = [loc EXCEPT ![p] = NoLocals]
            /\ pc' = [pc EXCEPT ![p] = "idle"]
    /\ UNCHANGED <<ctxs, headerKeysMap, last, req, wHolder, readers>>

\* SetRPCHeader, lines 58 and 74: return newCtx, and the deferred
\* headerKeysMutex.Unlock().
CUnlock(p) ==
    /\ pc[p] = "unlock"
    /\ wHolder' = NoProc
    /\ IF loc[p].op = "setAll"
       THEN /\ loc' = [loc EXCEPT ![p] =
                          [NoLocals EXCEPT !.op = "setAll",
                                           !.ctx = loc[p].newCtx,
                                           !.todo = loc[p].todo]]
            /\ pc' = [pc EXCEPT ![p] = "next"]
            /\ UNCHANGED handles
       ELSE /\ handles' = handles \cup {loc[p].newCtx}
            /\ loc' = [loc EXCEPT ![p] = NoLocals]
            /\ pc' = [pc EXCEPT ![p] = "idle"]
    /\ UNCHANGED <<ctxs, headerKeysMap, last, req, readers>>

\* The orders in which a range may visit the keys of a headers argument.
KeyOrders == UNION {RangeOrders(D) : D \in SUBSET Keys}

\* SetRPCHeaders, line 112: the call, with the order in which the range of
\* line 114 will yield the keys of headers.
CSetAllCall(p, ctx, order) ==
    /\ pc[p] = "idle"
    /\ Reserved + Len(order) <= MaxCtx
    /\ loc' = [loc EXCEPT ![p] = [NoLocals EXCEPT !.op = "setAll",
                                                  !.ctx = ctx,
                                                  !.todo = order]]
    /\ pc' = [pc EXCEPT ![p] = "next"]
    /\ UNCHANGED <<ctxs, headerKeysMap, handles, last, req, wHolder, readers>>

\* SetRPCHeaders, lines 114-117: the range is over and ctx is returned, or
\* the next key is passed to SetRPCHeader, which begins with line 54.
CNext(p) ==
    /\ pc[p] = "next"
    /\ IF loc[p].todo = <<>>
       THEN /\ handles' = handles \cup ({loc[p].ctx} \ {Root})
            /\ loc' = [loc EXCEPT ![p] = NoLocals]
            /\ pc' = [pc EXCEPT ![p] = "idle"]
            /\ UNCHANGED ctxs
       ELSE LET w == WithValue(ctxs, loc[p].ctx, Head(loc[p].todo), "v1") IN
            /\ ctxs' = w.ctxs
            /\ loc' = [loc EXCEPT ![p].key = Head(loc[p].todo),
                                  ![p].value = "v1",
                                  ![p].newCtx = w.ret,
                                  ![p].todo = Tail(loc[p].todo)]
            /\ pc' = [pc EXCEPT ![p] = "lock"]
            /\ UNCHANGED handles
    /\ UNCHANGED <<headerKeysMap, last, req, wHolder, readers>>

\* GetRPCHeaders, lines 85-89: ctx is not nil, headers is made.
CGetAllCall(p, ctx) ==
    /\ pc[p] = "idle"
    /\ loc' = [loc EXCEPT ![p] = [NoLocals EXCEPT !.op = "getAll",
                                                  !.ctx = ctx]]
    /\ pc' = [pc EXCEPT ![p] = "rlock"]
    /\ UNCHANGED <<ctxs, headerKeysMap, handles, last, req, wHolder, readers>>

\* An RLock that does not wait for a writer.
CRLockNoWait(p) ==
    /\ pc[p] = "rlock"
    /\ readers' = readers \cup {p}
    /\ pc' = [pc EXCEPT ![p] = "rread"]
    /\ UNCHANGED <<ctxs, headerKeysMap, handles, last, req, loc, wHolder>>

\* GetRPCHeaders, line 91: headerKeysMutex.RLock().
CRLock(p) ==
    /\ pc[p] = "rlock"
    /\ wHolder = NoProc
    /\ readers' = readers \cup {p}
    /\ pc' = [pc EXCEPT ![p] = "rread"]
    /\ UNCHANGED <<ctxs, headerKeysMap, handles, last, req, loc, wHolder>>

\* GetRPCHeaders, line 92: keys := headerKeysMap[ctx].
CRReadKeys(p) ==
    /\ pc[p] = "rread"
    /\ loc' = [loc EXCEPT ![p].keys = KeysOf(headerKeysMap, loc[p].ctx),
                          ![p].atLock = headerKeysMap]
    /\ pc' = [pc EXCEPT ![p] = "runlock"]
    /\ UNCHANGED <<ctxs, headerKeysMap, handles, last, req, wHolder, readers>>

\* GetRPCHeaders, line 93: headerKeysMutex.RUnlock().
CRUnlock(p) ==
    /\ pc[p] = "runlock"
    /\ readers' = readers \ {p}
    /\ pc' = [pc EXCEPT ![p] = "lookup"]
    /\ UNCHANGED <<ctxs, headerKeysMap, handles, last, req, loc, wHolder>>

\* GetRPCHeaders, lines 95-101: the GetRPCHeader of every key, without the
\* lock, and the return.
CLookup(p) ==
    /\ pc[p] = "lookup"
    /\ LET keys == loc[p].keys
           present == {keys[i] : i \in {j \in 1..Len(keys) :
                          GetRPCHeader(ctxs, loc[p].ctx, keys[j])[2]}}
       IN loc' = [loc EXCEPT ![p] =
                     [NoLocals EXCEPT
                         !.op = "returned",
                         !.all = [k \in present |->
                                     GetRPCHeader(ctxs, loc[p].ctx, k)[1]]]]
    /\ pc' = [pc EXCEPT ![p] = "idle"]
    /\ UNCHANGED <<ctxs, headerKeysMap, handles, last, req, wHolder, readers>>

\* GetRPCHeader: one lookup on the context, without the lock.
CGet(p, ctx, key) ==
    /\ pc[p] = "idle"
    /\ GetRPCHeader(ctxs, ctx, key) \in (Values \X {TRUE}) \cup {<<"", FALSE>>}
    /\ UNCHANGED vars

\* The steps of goroutine p inside a call.
CStep(p) ==
    \/ CNext(p)
    \/ CLockW(p)
    \/ CLockDrain(p)
    \/ CReadKeys(p)
    \/ CStore(p)
    \/ CDelete(p)
    \/ CUnlock(p)
    \/ CRLock(p)
    \/ CRReadKeys(p)
    \/ CRUnlock(p)
    \/ CLookup(p)

\* Concurrent calls of SetRPCHeader, GetRPCHeaders and GetRPCHeader.
NextConc ==
    \/ \E p \in Procs, ctx \in Shared, key \in Keys, value \in {"v1"} :
          CSetCall(p, ctx, key, value)
    \/ \E p \in Procs : CLockW(p)
    \/ \E p \in Procs : CLockDrain(p)
    \/ \E p \in Procs : CReadKeys(p)
    \/ \E p \in Procs : CStore(p)
    \/ \E p \in Procs : CDelete(p)
    \/ \E p \in Procs : CUnlock(p)
    \/ \E p \in Procs, ctx \in Shared : CGetAllCall(p, ctx)
    \/ \E p \in Procs : CRLock(p)
    \/ \E p \in Procs : CRReadKeys(p)
    \/ \E p \in Procs : CRUnlock(p)
    \/ \E p \in Procs : CLookup(p)
    \/ \E p \in Procs, ctx \in Shared, key \in Keys : CGet(p, ctx, key)

\* Concurrent calls of all four functions.
NextConcAll ==
    \/ NextConc
    \/ \E p \in Procs, ctx \in Shared, order \in KeyOrders :
          CSetAllCall(p, ctx, order)
    \/ \E p \in Procs : CNext(p)

\* The shape of the state: value contexts hang off the root or an older
\* value context, and the side-table lists keys under value contexts only.
TypeOK ==
    /\ Len(ctxs) <= MaxCtx
    /\ \A i \in 1..Len(ctxs) :
          /\ ctxs[i].parent \in 0..(i - 1)
          /\ ctxs[i].key \in Keys
          /\ ctxs[i].val \in Values
    /\ DOMAIN headerKeysMap \subseteq 1..Len(ctxs)
    /\ \A h \in DOMAIN headerKeysMap :
          \A i \in 1..Len(headerKeysMap[h]) : headerKeysMap[h][i] \in Keys
    /\ handles \subseteq 1..Len(ctxs)
    /\ last.op \in {"init", "set", "setAll"}

Init ==
    /\ ctxs = <<>>
    /\ headerKeysMap = [h \in {} |-> <<>>]
    /\ handles = {}
    /\ last = NoCall
    /\ req = NoRequest
    /\ pc = [p \in Procs |-> "idle"]
    /\ loc = [p \in Procs |-> NoLocals]
    /\ wHolder = NoProc
    /\ readers = {}

Get(ctx, key) ==
    /\ GetRPCHeader(ctxs, ctx, key) \in (Values \X {TRUE}) \cup {<<"", FALSE>>}
    /\ UNCHANGED vars

GetAll(ctx) ==
    /\ GetRPCHeaders(ctxs, headerKeysMap, ctx) \in HeaderMaps
    /\ UNCHANGED vars

Set(ctx, key, value) ==
    /\ Len(ctxs) < MaxCtx
    /\ LET s == SetRPCHeader(ctxs, headerKeysMap, ctx, key, value) IN
       /\ ctxs' = s.ctxs
       /\ headerKeysMap' = s.headerKeysMap
       /\ handles' = IF s.panicked THEN handles ELSE handles \cup {s.ret}
       /\ last' = IF s.panicked
                  THEN [NoCall EXCEPT !.op = "set", !.ctx = ctx,
                                      !.panicked = TRUE]
                  ELSE [NoCall EXCEPT !.op = "set", !.ctx = ctx, !.key = key,
                                      !.value = value, !.ret = s.ret]
    /\ UNCHANGED <<facadeVars, procVars>>

SetAll(ctx, headers, order) ==
    /\ Len(ctxs) + Len(order) <= MaxCtx
    /\ LET s == SetRPCHeaders(ctxs, headerKeysMap, ctx, headers, order) IN
       /\ ctxs' = s.ctxs
       /\ headerKeysMap' = s.headerKeysMap
       /\ handles' = IF s.panicked THEN handles
                     ELSE handles \cup ({s.ret} \ {Root, Nil})
       /\ last' = IF s.panicked
                  THEN [NoCall EXCEPT !.op = "setAll", !.ctx = ctx,
                                      !.panicked = TRUE]
                  ELSE [NoCall EXCEPT !.op = "setAll", !.ctx = ctx,
                                      !.headers = headers, !.ret = s.ret]
    /\ UNCHANGED <<facadeVars, procVars>>

Next ==
    \/ \E ctx \in Callable, key \in Keys : Get(ctx, key)
    \/ \E ctx \in Callable : GetAll(ctx)
    \/ \E ctx \in Callable, key \in Keys, value \in Values :
          Set(ctx, key, value)
    \/ \E ctx \in Callable, headers \in HeaderMaps :
          \E order \in RangeOrders(DOMAIN headers) :
             SetAll(ctx, headers, order)

Spec == Init /\ [][Next]_vars

\* The request facade alone.
SpecFacade == Init /\ [][NextFacade]_vars

\* The registry under concurrent callers of SetRPCHeader, GetRPCHeaders and
\* GetRPCHeader.
SpecConc == Init /\ [][NextConc]_vars

\* The registry under concurrent callers of all four functions and the
\* scheduling of the Go runtime: a goroutine inside a call keeps running,
\* and one that waits in Lock or RLock gets the lock if it is free again and
\* again (sync.Mutex hands the lock to a starving waiter, and Unlock of the
\* RWMutex wakes the waiting readers first).
FairSpecConc ==
    /\ Init /\ [][NextConcAll]_vars
    /\ \A p \in Procs : WF_vars(CStep(p))
    /\ \A p \in Procs : SF_vars(CLockW(p))
    /\ \A p \in Procs : SF_vars(CRLock(p))

(***************************************************************************)
(* The chain of a context, read off the parent links.                      *)
(***************************************************************************)

\* The value contexts on the chain from ctx up to the root, ctx included.
RECURSIVE AncestorsOrSelf(_, _)
AncestorsOrSelf(cs, ctx) ==
    IF ctx \in {Root, Nil}
    THEN {}
    ELSE {ctx} \cup AncestorsOrSelf(cs, cs[ctx].parent)

\* The keys written on the chain of ctx.
ChainKeys(cs, ctx) == {cs[a].key : a \in AncestorsOrSelf(cs, ctx)}

\* The value written last under key on the chain of ctx (a child is created
\* after its parent, so the last write is the one with the largest index).
LatestOnChain(cs, ctx, key) ==
    LET at == {a \in AncestorsOrSelf(cs, ctx) : cs[a].key = key} IN
    cs[CHOOSE a \in at : \A b \in at : b <= a].val

\* The headers written on the chain of ctx, each with its last value.
ChainMap(cs, ctx) ==
    [k \in ChainKeys(cs, ctx) |-> LatestOnChain(cs, ctx, k)]

\* The contexts derived directly from ctx.
Children(cs, ctx) == {c \in 1..Len(cs) : cs[c].parent = ctx}

\* ctx ends a linear chain: nothing was derived from it, and every context
\* below it on its chain was the parent of exactly one call.
Linear(cs, ctx) ==
    /\ ctx \in 1..Len(cs)
    /\ Children(cs, ctx) = {}
    /\ \A a \in AncestorsOrSelf(cs, ctx) \ {ctx} :
          Cardinality(Children(cs, a)) = 1

(***************************************************************************)
(* C1: get(set(H, k, v), k) is (v, true), also for the empty string, and   *)
(* the later of two sets of one key wins: every returned context finds the *)
(* pair it was created with, and so does the context a set just returned.  *)
(***************************************************************************)
C1_SetThenGet ==
    /\ \A n \in handles :
          GetRPCHeader(ctxs, n, ctxs[n].key) = <<ctxs[n].val, TRUE>>
    /\ (last.op = "set" /\ ~last.panicked) =>
          /\ last.ret \in handles
          /\ GetRPCHeader(ctxs, last.ret, last.key) = <<last.value, TRUE>>

\* A set has just overwritten a non-empty value of its parent by "".
C1_Witness ==
    /\ last.op = "set"
    /\ ~last.panicked
    /\ last.ctx \in handles
    /\ last.value = ""
    /\ ctxs[last.ctx].key = last.key
    /\ ctxs[last.ctx].val # ""

(***************************************************************************)
(* C2: a key never set on the chain of H is not found on H, ("", false),   *)
(* whatever was set on contexts that are not on the chain of H.            *)
(***************************************************************************)
C2_UnsetKeyNotFound ==
    \A h \in Callable, k \in Keys :
       k \notin ChainKeys(ctxs, h) =>
          GetRPCHeader(ctxs, h, k) = <<"", FALSE>>

\* A returned context h and a key k that get does not find on h: k is
\* absent from the chain of h but was set on a sibling and on a descendant
\* of h.
C2_Witness ==
    \E h \in handles, k \in Keys :
       /\ k \notin ChainKeys(ctxs, h)
       /\ GetRPCHeader(ctxs, h, k) = <<"", FALSE>>
       /\ \E d \in handles \ {h} :
             h \in AncestorsOrSelf(ctxs, d) /\ ctxs[d].key = k
       /\ \E s \in handles \ {h} :
             ctxs[s].parent = ctxs[h].parent /\ ctxs[s].key = k

(***************************************************************************)
(* C3: a call that creates a context (a set, or a setAll of a non-empty    *)
(* map) leaves what get returns as it was, for every key, on nil, on the   *)
(* root and on every context returned before the call, its own parent      *)
(* included.                                                               *)
(***************************************************************************)
C3_SetLeavesGet ==
    [][ctxs' # ctxs =>
          \A h \in Callable, k \in Keys :
             GetRPCHeader(ctxs', h, k) = GetRPCHeader(ctxs, h, k)]_vars

\* A set has just written, on a child, another value for the key of its
\* parent.
C3_Witness ==
    /\ last.op = "set"
    /\ last.ctx \in handles
    /\ ctxs[last.ctx].key = last.key
    /\ ctxs[last.ctx].val # last.value
    /\ GetRPCHeader(ctxs, last.ctx, last.key) = <<ctxs[last.ctx].val, TRUE>>

(***************************************************************************)
(* C4: on the end of a linear chain from the root, getAll returns exactly  *)
(* the keys set on the chain, each with the value written last.            *)
(***************************************************************************)
C4_LinearChainGetAll ==
    \A h \in handles :
       Linear(ctxs, h) =>
          GetRPCHeaders(ctxs, headerKeysMap, h) = ChainMap(ctxs, h)

\* The end h of a linear chain of three sets with two distinct keys, one of
\* them overwritten: getAll on h has two entries, and not the overwritten
\* value.
C4_Witness ==
    \E h \in handles :
       LET all == GetRPCHeaders(ctxs, headerKeysMap, h) IN
       /\ Linear(ctxs, h)
       /\ Cardinality(AncestorsOrSelf(ctxs, h)) = 3
       /\ Cardinality(DOMAIN all) = 2
       /\ \E a \in AncestorsOrSelf(ctxs, h) :
             ctxs[a].key \in DOMAIN all /\ ctxs[a].val # all[ctxs[a].key]

(***************************************************************************)
(* C5: for every returned context H, getAll(H) holds every key written on  *)
(* the chain of H, with its latest value on that chain.                    *)
(***************************************************************************)
C5_GetAllCoversChain ==
    \A h \in handles :
       LET all == GetRPCHeaders(ctxs, headerKeysMap, h) IN
       \A k \in ChainKeys(ctxs, h) :
          k \in DOMAIN all /\ all[k] = LatestOnChain(ctxs, h, k)

(***************************************************************************)
(* C6: every entry (k, v) of getAll(H) is what get(H, k) finds, and was    *)
(* written on H or an ancestor of H.                                       *)
(***************************************************************************)
C6_GetAllWithinGet ==
    \A h \in Callable :
       LET all == GetRPCHeaders(ctxs, headerKeysMap, h) IN
       \A k \in DOMAIN all :
          /\ GetRPCHeader(ctxs, h, k) = <<all[k], TRUE>>
          /\ \E a \in AncestorsOrSelf(ctxs, h) :
                ctxs[a].key = k /\ ctxs[a].val = all[k]

\* A returned context h on which getAll has an entry, while a context off
\* the chain of h holds a side-table entry with a key that the chain of h
\* does not have.
C6_Witness ==
    \E h \in handles :
       /\ DOMAIN GetRPCHeaders(ctxs, headerKeysMap, h) # {}
       /\ \E s \in DOMAIN headerKeysMap :
             /\ s \notin AncestorsOrSelf(ctxs, h)
             /\ h \notin AncestorsOrSelf(ctxs, s)
             /\ ctxs[s].key \notin ChainKeys(ctxs, h)

(***************************************************************************)
(* C7: no call changes what getAll returns on a context that existed       *)
(* before it, the parent of a set included.                                *)
(***************************************************************************)
C7_SetLeavesGetAll ==
    [][\A h \in Callable :
          GetRPCHeaders(ctxs', headerKeysMap', h)
             = GetRPCHeaders(ctxs, headerKeysMap, h)]_vars

(***************************************************************************)
(* C8: setAll(H, m) returns one context on which every key of m is found   *)
(* with its value of m, in whatever order the entries were applied; from   *)
(* the root, getAll on it is m.                                            *)
(***************************************************************************)
C8_SetAllAttachesAll ==
    (last.op = "setAll" /\ ~last.panicked) =>
       /\ last.ret \in handles \cup {last.ctx}
       /\ \A k \in DOMAIN last.headers :
             GetRPCHeader(ctxs, last.ret, k) = <<last.headers[k], TRUE>>
       /\ last.ctx = Root =>
             GetRPCHeaders(ctxs, headerKeysMap, last.ret) = last.headers

\* A setAll of two entries on the root has returned.
C8_Witness ==
    /\ last.op = "setAll"
    /\ ~last.panicked
    /\ last.ctx = Root
    /\ Cardinality(DOMAIN last.headers) = 2
    /\ last.ret \in handles

(***************************************************************************)
(* C9: setAll(H, {}) returns a context on which get gives what it gives on *)
(* H, for every key, and leaves the side-table as it was.                  *)
(***************************************************************************)
C9_SetAllEmpty ==
    \A h \in Callable :
       LET s == SetRPCHeaders(ctxs, headerKeysMap, h, EmptyHeaders, <<>>) IN
       /\ ~s.panicked
       /\ s.headerKeysMap = headerKeysMap
       /\ \A k \in Keys :
             GetRPCHeader(s.ctxs, s.ret, k) = GetRPCHeader(ctxs, h, k)

\* A setAll with the empty map on a context that has headers and a
\* side-table entry.
C9_Witness ==
    /\ last.op = "setAll"
    /\ ~last.panicked
    /\ DOMAIN last.headers = {}
    /\ last.ctx \in DOMAIN headerKeysMap
    /\ \E k \in Keys : GetRPCHeader(ctxs, last.ctx, k)[2]

(***************************************************************************)
(* C10: getAll on the nil context and on the root context is the empty     *)
(* map in every reachable state.                                           *)
(***************************************************************************)
C10_GetAllNilRootEmpty ==
    /\ GetRPCHeaders(ctxs, headerKeysMap, Nil) = EmptyHeaders
    /\ GetRPCHeaders(ctxs, headerKeysMap, Root) = EmptyHeaders

\* Two sets whose parent was the root have left their side-table entries,
\* and getAll on the root is empty.
C10_Witness ==
    /\ GetRPCHeaders(ctxs, headerKeysMap, Root) = EmptyHeaders
    /\ last.op = "set"
    /\ last.ctx = Root
    /\ Cardinality({h \in DOMAIN headerKeysMap : ctxs[h].parent = Root}) = 2

(***************************************************************************)
(* C11: no registry operation raises on the nil context: get gives         *)
(* ("", false), getAll gives the empty map, and set and setAll return      *)
(* normally.                                                               *)
(***************************************************************************)
C11_NilNeverRaises ==
    /\ \A k \in Keys : GetRPCHeader(ctxs, Nil, k) = <<"", FALSE>>
    /\ GetRPCHeaders(ctxs, headerKeysMap, Nil) = EmptyHeaders
    /\ (last.op \in {"set", "setAll"} /\ last.ctx = Nil) => ~last.panicked

(***************************************************************************)
(* C14: a set(H, k, v) that returns N gives N the key list H had, with k   *)
(* appended only if it was not in it, removes the entry of H and leaves    *)
(* every other entry as it was; no key list ever holds a key twice.        *)
(***************************************************************************)
NoDuplicateKeys(map) ==
    \A h \in DOMAIN map :
       \A i, j \in 1..Len(map[h]) : map[h][i] = map[h][j] => i = j

C14_SetSideTableStep ==
    [][(last'.op = "set" /\ ~last'.panicked /\ ctxs' # ctxs) =>
          LET H == last'.ctx
              N == last'.ret
              k == last'.key
              before == KeysOf(headerKeysMap, H)
              had == \E i \in 1..Len(before) : before[i] = k
          IN /\ N \notin DOMAIN headerKeysMap
             /\ DOMAIN headerKeysMap' = (DOMAIN headerKeysMap \cup {N}) \ {H}
             /\ headerKeysMap'[N] = IF had THEN before ELSE Append(before, k)
             /\ \A h \in DOMAIN headerKeysMap' \ {N} :
                   headerKeysMap'[h] = headerKeysMap[h]
             /\ NoDuplicateKeys(headerKeysMap')]_vars

\* A set on a parent with a key list of two keys, with a key of that list.
C14_Witness ==
    /\ last.op = "set"
    /\ ~last.panicked
    /\ last.ret \in DOMAIN headerKeysMap
    /\ Len(headerKeysMap[last.ret]) = 2
    /\ last.key = headerKeysMap[last.ret][1]
    /\ last.ctx \in handles
    /\ last.ctx \notin DOMAIN headerKeysMap

(***************************************************************************)
(* C16: the contexts with a side-table entry are exactly the value         *)
(* contexts that were never the parent of a set; the root has none; a step *)
(* removes at most the entry of the parent it sets on, and the number of   *)
(* entries never decreases.                                                *)
(***************************************************************************)
C16_EntriesAreUnderivedContexts ==
    [][(ctxs' # ctxs \/ headerKeysMap' # headerKeysMap) =>
          /\ DOMAIN headerKeysMap'
                = {h \in 1..Len(ctxs') : Children(ctxs', h) = {}}
          /\ Root \notin DOMAIN headerKeysMap'
          /\ \A h \in DOMAIN headerKeysMap \ DOMAIN headerKeysMap' :
                Children(ctxs', h) # {} /\ Children(ctxs, h) = {}
          /\ Cardinality(DOMAIN headerKeysMap')
                >= Cardinality(DOMAIN headerKeysMap)]_vars

\* A set on a context that had an entry: the entry of the parent is gone
\* and the number of entries is what it was.
C16_Witness ==
    /\ last.op = "set"
    /\ ~last.panicked
    /\ last.ctx \in handles
    /\ last.ctx \notin DOMAIN headerKeysMap
    /\ Children(ctxs, last.ctx) = {last.ret}
    /\ Cardinality(DOMAIN headerKeysMap) = 2

(***************************************************************************)
(* C13 as stated: every facade call makes one attempt; on a transport      *)
(* error it returns that error and no body, and on a response with any     *)
(* status it returns the raw body and a nil error.                         *)
(***************************************************************************)
C13_EveryCallReturnsBody ==
    req.phase = "returned" =>
       /\ req.attempts = 1
       /\ req.err # "nil" =>
             (req.retErr = req.err /\ req.retBody = NilBytes)
       /\ req.err = "nil" =>
             (req.retErr = "nil" /\ req.retBody = Bytes(req.body))

(***************************************************************************)
(* C13 amended: every facade call makes one attempt; on a transport error  *)
(* it returns that error and no body; on a response with any status the    *)
(* functions that return a body return the raw body and a nil error, and   *)
(* GetWithEntity and PostWithEntity return no body and the error of        *)
(* decoding the body as JSON, nil only if it decodes.                      *)
(***************************************************************************)
C13_OneAttemptErrorUnchanged ==
    req.phase = "returned" =>
       /\ req.attempts = 1
       /\ req.err # "nil" =>
             (req.retErr = req.err /\ req.retBody = NilBytes)
       /\ (req.err = "nil" /\ req.fn \notin EntityFns) =>
             (req.retErr = "nil" /\ req.retBody = Bytes(req.body))
       /\ (req.err = "nil" /\ req.fn \in EntityFns) =>
             /\ req.retBody = NilBytes
             /\ req.retErr = JsonUnmarshal(req.body)
             /\ (req.retErr = "nil") = (req.body \in JsonBodies)

\* A call that returns a body has returned the body of a 500 response, with
\* a nil error.
C13_Witness ==
    /\ req.phase = "returned"
    /\ req.fn \notin EntityFns
    /\ req.err = "nil"
    /\ req.status = 500
    /\ req.body # ""
    /\ req.retBody = Bytes(req.body)
    /\ req.retErr = "nil"

(***************************************************************************)
(* Concurrent callers                                                      *)
(***************************************************************************)

\* Where a goroutine holds headerKeysMutex exclusively, and where shared.
WriterCS == {"read", "store", "delete", "unlock"}
ReaderCS == {"rread", "runlock"}

\* The side table a whole SetRPCHeader leaves when it runs alone on the
\* table the goroutine found when it got the lock.
AloneOn(p) ==
    SetRPCHeader(SubSeq(ctxs, 1, loc[p].newCtx - 1), loc[p].atLock,
                 loc[p].ctx, loc[p].key, loc[p].value)

\* C12: concurrent SetRPCHeader and GetRPCHeaders calls are serialised by
\* headerKeysMutex.  No goroutine is between Lock and Unlock while another
\* is between Lock and Unlock or between RLock and RUnlock; the table a
\* writer leaves at Unlock, and the context it returns, are those of one
\* SetRPCHeader run alone on the table it found at Lock, so no update of
\* another call is lost or seen half done; the key list a reader holds at
\* RUnlock is the one the table has; and what GetRPCHeaders returns is what
\* it returns run alone on the table as it was at the read.
C12_CallsAreSerialised ==
    /\ [](/\ \A p, q \in Procs :
               (p # q /\ pc[p] \in WriterCS) => pc[q] \notin WriterCS \cup ReaderCS
          /\ \A p \in Procs :
               /\ pc[p] \in {"read", "store"} => headerKeysMap = loc[p].atLock
               /\ pc[p] \in WriterCS => wHolder = p /\ readers = {}
               /\ pc[p] = "unlock" =>
                     /\ headerKeysMap = AloneOn(p).headerKeysMap
                     /\ loc[p].newCtx = AloneOn(p).ret
               /\ pc[p] \in ReaderCS => p \in readers
               /\ pc[p] = "runlock" =>
                     /\ loc[p].atLock = headerKeysMap
                     /\ loc[p].keys = KeysOf(headerKeysMap, loc[p].ctx))
    /\ [][\A p \in Procs :
             (pc[p] = "lookup" /\ pc'[p] = "idle") =>
                loc'[p].all = GetRPCHeaders(ctxs, loc[p].atLock, loc[p].ctx)]_vars

\* A writer about to unlock after a derivation from a value context, while
\* the other goroutine waits for the lock with a call on the same context.
C12_Witness ==
    \E p, q \in Procs :
        /\ p # q
        /\ pc[p] = "unlock"
        /\ loc[p].ctx # Root
        /\ loc[p].atLock # headerKeysMap
        /\ pc[q] \in {"lock", "rlock"}
        /\ loc[q].ctx = loc[p].ctx

\* C15: of the SetRPCHeader calls on one value context P, only the one
\* whose locked update runs first inherits the key list of P.  When a call
\* on P is about to unlock, GetRPCHeaders(P) is empty; if P still had its
\* entry when the call got the lock, the new context has the key list of P
\* with the key appended unless present; if the entry was gone already, the
\* new context has the key list of its own key alone, GetRPCHeaders on it
\* holds that one header, and GetRPCHeader on it still finds every key set
\* on the chain of P.
C15_OnlyFirstDerivationInherits ==
    \A p \in Procs :
        (pc[p] = "unlock" /\ loc[p].ctx # Root) =>
            LET P == loc[p].ctx
                N == loc[p].newCtx
                k == loc[p].key
                before == KeysOf(loc[p].atLock, P)
            IN /\ GetRPCHeaders(ctxs, headerKeysMap, P) = EmptyHeaders
               /\ P \in DOMAIN loc[p].atLock <=>
                     \A c \in Children(ctxs, P) : c \notin DOMAIN loc[p].atLock
                                                  /\ Children(ctxs, c) = {}
               /\ IF P \in DOMAIN loc[p].atLock
                  THEN /\ before # <<>>
                       /\ headerKeysMap[N] =
                             IF \E i \in 1..Len(before) : before[i] = k
                             THEN before ELSE Append(before, k)
                  ELSE /\ headerKeysMap[N] = <<k>>
                       /\ GetRPCHeaders(ctxs, headerKeysMap, N) =
                             [h \in {k} |-> loc[p].value]
                       /\ \A h \in ChainKeys(ctxs, P) :
                             GetRPCHeader(ctxs, N, h)[2]

\* Two calls on the same value context in flight together: the goroutine
\* about to unlock derived its context first but got the lock second, the
\* other call has returned, and the chain of the parent holds a key other
\* than the one being set.
C15_Witness ==
    \E p \in Procs :
        /\ pc[p] = "unlock"
        /\ loc[p].ctx # Root
        /\ loc[p].ctx \notin DOMAIN loc[p].atLock
        /\ \E c \in Children(ctxs, loc[p].ctx) \cap handles : c > loc[p].newCtx
        /\ \E h \in ChainKeys(ctxs, loc[p].ctx) : h # loc[p].key
        /\ DOMAIN GetRPCHeaders(ctxs, headerKeysMap, loc[p].newCtx)
              # ChainKeys(ctxs, loc[p].newCtx)

\* C17: no call of the registry blocks for ever.  Under the scheduling of
\* the Go runtime every goroutine inside SetRPCHeader, GetRPCHeaders or
\* SetRPCHeaders comes back to its caller, whatever the other goroutines
\* call; a goroutine outside a call holds headerKeysMutex in neither mode,
\* one holds it at most once, and the lookups of GetRPCHeaders run after
\* RUnlock.
C17_EveryCallReturns ==
    /\ [](\A p \in Procs :
             /\ pc[p] \in {"idle", "next", "lock"} => wHolder # p
             /\ pc[p] \notin ReaderCS => p \notin readers
             /\ ~(wHolder = p /\ p \in readers))
    /\ \A p \in Procs : (pc[p] # "idle") ~> (pc[p] = "idle")

\* A writer that waits for a reader to leave while the reader's goroutine
\* is inside GetRPCHeaders, and a SetRPCHeaders with a key still to set
\* that waits for the lock another writer holds.
C17_Witness ==
    \/ \E p, q \in Procs :
          /\ pc[p] = "drain"
          /\ pc[q] = "runlock"
          /\ q \in readers
          /\ loc[p].op = "setAll"
    \/ \E p, q \in Procs :
          /\ pc[p] = "lock"
          /\ loc[p].op = "setAll"
          /\ loc[p].todo # <<>>
          /\ wHolder = q
          /\ pc[q] \in WriterCS

====
